---------------------------- MODULE Spec2Model ----------------------------
(***************************************************************************)
(* A model of the directory-backed content-addressable store of            *)
(* src/storage/repository.go: the identifier and alias types (ID, Name),   *)
(* the on-disk tree <root>/{objects,refs,tmp} and the operations of Dir.   *)
(*                                                                         *)
(* Bytes are integers 0..255, text is a sequence of one-character strings, *)
(* a file is its content, a directory is the set (function) of its files.  *)
(* Digest widths are scaled down (2 and 1 bytes instead of 32 and 20); the *)
(* digest is a positional accumulator over the bytes read, injective on    *)
(* the contents the model stores, as a cryptographic hash is assumed to    *)
(* be on the contents a program stores.                                    *)
(***************************************************************************)
EXTENDS Integers, Sequences, FiniteSets, TLC

VARIABLES
    fs,       \* the directory tree below Dir.path
    hash,     \* Dir.hash: the configured hash constructor
    put,      \* per goroutine: the position of a Put call in progress
    last,     \* the call that returned last, with its arguments and results
    putLog,   \* history: ID -> what the successful Put that returned it stored
    linkLog   \* history: name -> the ID of the most recent successful Link

vars == <<fs, hash, put, last, putLog, linkLog>>

----------------------------------------------------------------------------
(* Bounds and input sets *)

\* leftover temp files (from Puts whose rename failed) the model lets pile up
MaxOrphans == 1

\* goroutines calling Put concurrently in SpecSteps
NumThreads == 2

\* bytes one Read of io.Copy moves (its buffer, scaled)
ChunkSize == 1

Threads == 1..NumThreads

\* contents handed to Put: "" and "hi"
Contents == { <<>>, <<104, 105>> }

\* hash constructors handed to SetHash; sha256.New is NewDir's default
Hashes == { "sha256", "sha1" }

\* alias names handed to Link, Unlink and Resolve: "", ".." and "x y"
Names == { <<>>, <<".", ".">>, <<"x", " ", "y">> }

\* files outside the repository, for PutFile: path "f" holds "hi", "g" is absent
ExtFiles == [ p \in { <<"f">> } |-> <<104, 105>> ]

ExtPaths == { <<"f">>, <<"g">> }

----------------------------------------------------------------------------
(* Small helpers on functions *)

Ext(f, k, v) == [ x \in (DOMAIN f) \cup {k} |-> IF x = k THEN v ELSE f[x] ]

Del(f, k) == [ x \in (DOMAIN f) \ {k} |-> f[x] ]

EmptyMap == [ x \in {} |-> <<>> ]

----------------------------------------------------------------------------
(* encoding/hex *)

HexDigits == << "0", "1", "2", "3", "4", "5", "6", "7",
                "8", "9", "a", "b", "c", "d", "e", "f" >>

UpperHex == << "0", "1", "2", "3", "4", "5", "6", "7",
               "8", "9", "A", "B", "C", "D", "E", "F" >>

RECURSIVE EncodeToString(_)
EncodeToString(bs) ==
    IF bs = <<>> THEN <<>>
    ELSE << HexDigits[(Head(bs) \div 16) + 1], HexDigits[(Head(bs) % 16) + 1] >>
         \o EncodeToString(Tail(bs))

\* the value of a hex character, -1 when it is none
FromHexChar(c) ==
    IF \E k \in 1..16 : HexDigits[k] = c
    THEN (CHOOSE k \in 1..16 : HexDigits[k] = c) - 1
    ELSE IF \E k \in 1..16 : UpperHex[k] = c
    THEN (CHOOSE k \in 1..16 : UpperHex[k] = c) - 1
    ELSE -1

\* hex.Decode / hex.DecodeString: pairs of characters to bytes
RECURSIVE DecodePairs(_)
DecodePairs(text) ==
    IF Len(text) < 2 THEN [ err |-> "nil", bytes |-> <<>> ]
    ELSE LET a == FromHexChar(text[1])
             b == FromHexChar(text[2])
             rest == DecodePairs(SubSeq(text, 3, Len(text)))
         IN  IF a < 0 \/ b < 0 THEN [ err |-> "InvalidByteError", bytes |-> <<>> ]
             ELSE IF rest.err # "nil" THEN rest
             ELSE [ err |-> "nil", bytes |-> <<a * 16 + b>> \o rest.bytes ]

HexDecode(text) ==
    LET r == DecodePairs(text)
    IN  IF r.err # "nil" THEN r
        ELSE IF Len(text) % 2 = 1
        THEN IF FromHexChar(text[Len(text)]) < 0
             THEN [ err |-> "InvalidByteError", bytes |-> <<>> ]
             ELSE [ err |-> "ErrLength", bytes |-> <<>> ]
        ELSE r

----------------------------------------------------------------------------
(* ID and Name *)

String(id) == EncodeToString(id)

\* mutant of Equal: the IDs are compared over the length of the shorter one
EqualPrefix(id, other) ==
    \A k \in 1..(IF Len(id) < Len(other) THEN Len(id) ELSE Len(other)) :
        id[k] = other[k]

Equal(id, other) == id = other

EqualString(id, other) ==
    LET s == HexDecode(other)
    IN  IF s.err # "nil" THEN [ res |-> FALSE, err |-> s.err ]
        ELSE [ res |-> Equal(id, s.bytes), err |-> "nil" ]

\* the byte value of the characters alias names are made of
CharCode(c) ==
    CASE c = " " -> 32
      [] c = "+" -> 43
      [] c = "." -> 46
      [] c = "/" -> 47
      [] c = "x" -> 120
      [] c = "y" -> 121

\* url.QueryEscape leaves letters, digits and - _ . ~ alone
Unreserved == { "x", "y", ".", "-", "_", "~" }

RECURSIVE Encode(_)
Encode(n) ==
    IF n = <<>> THEN <<>>
    ELSE LET c == Head(n)
             e == IF c = " " THEN << "+" >>
                  ELSE IF c \in Unreserved THEN << c >>
                  ELSE << "%", UpperHex[(CharCode(c) \div 16) + 1],
                               UpperHex[(CharCode(c) % 16) + 1] >>
         IN  e \o Encode(Tail(n))

----------------------------------------------------------------------------
(* hash.Hash, as handed to NewDir and SetHash *)

\* hash.Hash.Size(), scaled: 2 bytes for sha256, 1 byte for sha1
DigestSize(h) == IF h = "sha256" THEN 2 ELSE 1

\* the state of a fresh hash
HashNew(h) == IF h = "sha256" THEN 7 ELSE 3

RECURSIVE Pow256(_)
Pow256(n) == IF n = 0 THEN 1 ELSE 256 * Pow256(n - 1)

\* hash.Hash.Write: absorb bytes in order
RECURSIVE HashWrite(_, _, _)
HashWrite(h, acc, bs) ==
    IF bs = <<>> THEN acc
    ELSE HashWrite(h, (acc * 31 + Head(bs) + 1) % Pow256(DigestSize(h)), Tail(bs))

RECURSIVE ToBytes(_, _)
ToBytes(v, n) == IF n = 0 THEN <<>> ELSE ToBytes(v \div 256, n - 1) \o << v % 256 >>

\* hash.Hash.Sum(nil): the digest, DigestSize(h) bytes
HashSum(h, acc) == ToBytes(acc, DigestSize(h))

\* the digest of a whole content under h
Sum(h, b) == HashSum(h, HashWrite(h, HashNew(h), b))

\* hashing.Reader: passes on what it reads from its source and hashes it
NewReader(src, h) == [ src |-> src, h |-> h, acc |-> HashNew(h) ]

\* one Read of at most n bytes
ReaderRead(rd, n) ==
    LET k == IF Len(rd.src) < n THEN Len(rd.src) ELSE n
        chunk == SubSeq(rd.src, 1, k)
    IN  [ bytes |-> chunk,
          rd |-> [ rd EXCEPT !.src = SubSeq(rd.src, k + 1, Len(rd.src)),
                             !.acc = HashWrite(rd.h, rd.acc, chunk) ] ]

ReaderHash(rd) == HashSum(rd.h, rd.acc)

\* the IDs handed to Get, Test, Remove and Link: every digest of a content,
\* and the zero-length ID
IDs == { Sum(h, b) : h \in Hashes, b \in Contents } \cup { <<>> }

----------------------------------------------------------------------------
(* The directory tree and the os calls the repository makes on it *)

NoFile == [ exists |-> FALSE, text |-> <<>> ]

\* the tree NewDir leaves at a fresh path
EmptyTree ==
    [ dirs     |-> { "root", "objects", "refs", "tmp" },
      objects  |-> EmptyMap,     \* objects/<name>  -> bytes
      refs     |-> EmptyMap,     \* refs/<name>     -> text
      tmp      |-> EmptyMap,     \* tmp/temp-<k>    -> bytes
      refsFile |-> NoFile ]      \* a regular file at <root>/refs, if any

\* path.Join(r.path, dir, elem): Clean drops "" and ".", ".." climbs to r.path
PathJoin(dir, elem) ==
    IF elem = <<>> \/ elem = << "." >> THEN [ dir |-> dir, base |-> <<>> ]
    ELSE IF elem = << ".", "." >> THEN [ dir |-> "root", base |-> <<>> ]
    ELSE [ dir |-> dir, base |-> elem ]

ObjectFile(id) == PathJoin("objects", String(id))

RefFile(name) == PathJoin("refs", Encode(name))

\* what a path names: "dir", "file", "none", or "notdir" (below a regular file)
Stat(f, p) ==
    IF p.base = <<>>
    THEN IF p.dir = "refs" /\ f.refsFile.exists THEN "file"
         ELSE IF p.dir \in f.dirs THEN "dir"
         ELSE "none"
    ELSE IF p.dir \notin f.dirs
         THEN IF p.dir = "refs" /\ f.refsFile.exists THEN "notdir" ELSE "none"
         ELSE IF p.dir = "objects" /\ p.base \in DOMAIN f.objects THEN "file"
         ELSE IF p.dir = "refs" /\ p.base \in DOMAIN f.refs THEN "file"
         ELSE "none"

DirEmpty(f, d) ==
    CASE d = "objects" -> DOMAIN f.objects = {}
      [] d = "refs"    -> DOMAIN f.refs = {}
      [] d = "tmp"     -> DOMAIN f.tmp = {}
      [] d = "root"    -> f.dirs = { "root" } /\ ~f.refsFile.exists

IsNotExist(err) == err = "ENOENT"

\* os.Open: directories open as well as files
osOpen(f, p) ==
    LET st == Stat(f, p)
    IN  CASE st = "none"   -> [ err |-> "ENOENT",  kind |-> "none" ]
          [] st = "notdir" -> [ err |-> "ENOTDIR", kind |-> "none" ]
          [] OTHER         -> [ err |-> "nil",     kind |-> st ]

\* the text of the alias file (or of <root>/refs) an open handle reads
RefText(f, p) == IF p.base = <<>> THEN f.refsFile.text ELSE f.refs[p.base]

\* os.Remove: unlink, else rmdir
osRemove(f, p) ==
    LET st == Stat(f, p)
    IN  CASE st = "none"   -> [ fs |-> f, err |-> "ENOENT" ]
          [] st = "notdir" -> [ fs |-> f, err |-> "ENOTDIR" ]
          [] st = "dir"    ->
                IF DirEmpty(f, p.dir)
                THEN [ fs |-> [ f EXCEPT !.dirs = @ \ { p.dir } ], err |-> "nil" ]
                ELSE [ fs |-> f, err |-> "ENOTEMPTY" ]
          [] st = "file"   ->
                IF p.base = <<>>
                THEN [ fs |-> [ f EXCEPT !.refsFile = NoFile ], err |-> "nil" ]
                ELSE IF p.dir = "objects"
                THEN [ fs |-> [ f EXCEPT !.objects = Del(@, p.base) ], err |-> "nil" ]
                ELSE [ fs |-> [ f EXCEPT !.refs = Del(@, p.base) ], err |-> "nil" ]

\* os.Create of an alias path: O_RDWR|O_CREATE|O_TRUNC
osCreate(f, p) ==
    LET st == Stat(f, p)
    IN  CASE st = "dir"    -> [ fs |-> f, err |-> "EISDIR" ]
          [] st = "notdir" -> [ fs |-> f, err |-> "ENOTDIR" ]
          [] OTHER ->
                IF p.base = <<>>
                THEN [ fs |-> [ f EXCEPT !.refsFile = [ exists |-> TRUE, text |-> <<>> ] ],
                       err |-> "nil" ]
                ELSE IF p.dir \in f.dirs
                THEN [ fs |-> [ f EXCEPT !.refs = Ext(@, p.base, <<>>) ], err |-> "nil" ]
                ELSE [ fs |-> f, err |-> "ENOENT" ]

\* File.Write on a handle osCreate returned
fileWrite(f, p, text) ==
    IF p.base = <<>>
    THEN [ f EXCEPT !.refsFile.text = @ \o text ]
    ELSE [ f EXCEPT !.refs[p.base] = @ \o text ]

\* os.MkdirAll of one directory of the layout
MkdirAll(f, d) ==
    IF d \in f.dirs THEN [ fs |-> f, err |-> "nil" ]
    ELSE IF d = "refs" /\ f.refsFile.exists THEN [ fs |-> f, err |-> "ENOTDIR" ]
    ELSE [ fs |-> [ f EXCEPT !.dirs = @ \cup { d } ], err |-> "nil" ]

\* the name ioutil.TempFile picks: one that is not taken
TempName(f) ==
    CHOOSE k \in 1..(Cardinality(DOMAIN f.tmp) + 1) :
        k \notin DOMAIN f.tmp /\ \A j \in 1..(k - 1) : j \in DOMAIN f.tmp

\* mutant of TempFile: the name is fixed; a file of that name is truncated
TempFileFixedName(f) ==
    IF "tmp" \notin f.dirs THEN [ fs |-> f, name |-> 0, err |-> "ENOENT" ]
    ELSE [ fs |-> [ f EXCEPT !.tmp = Ext(@, 1, <<>>) ], name |-> 1, err |-> "nil" ]

\* ioutil.TempFile(<root>/tmp, "temp-")
TempFile(f) ==
    IF "tmp" \notin f.dirs THEN [ fs |-> f, name |-> 0, err |-> "ENOENT" ]
    ELSE [ fs |-> [ f EXCEPT !.tmp = Ext(@, TempName(f), <<>>) ],
           name |-> TempName(f), err |-> "nil" ]

\* File.Write on the temp file
tempWrite(f, t, bytes) == [ f EXCEPT !.tmp[t] = @ \o bytes ]

\* mutant of osRename: a move by copy, seen while the copy is under way
osRenameByCopy(f, t, p) ==
    IF p.dir \notin f.dirs THEN [ fs |-> f, err |-> "ENOENT" ]
    ELSE [ fs |-> [ f EXCEPT !.objects =
                        Ext(@, p.base, SubSeq(f.tmp[t], 1, Len(f.tmp[t]) \div 2)) ],
           err |-> "nil" ]

\* os.Rename(tmp/temp-<t>, p): replaces p if it exists
osRename(f, t, p) ==
    IF p.dir \notin f.dirs THEN [ fs |-> f, err |-> "ENOENT" ]
    ELSE IF p.base = <<>> THEN [ fs |-> f, err |-> "EISDIR" ]
    ELSE [ fs |-> [ f EXCEPT !.objects = Ext(@, p.base, f.tmp[t]),
                             !.tmp = Del(@, t) ],
           err |-> "nil" ]

----------------------------------------------------------------------------
(* The methods of Dir, as functions of the tree (and the configured hash) *)

\* Dir.create: MkdirAll of root, objects, refs, tmp, stopping at the first error
RECURSIVE create(_, _)
create(f, ds) ==
    IF ds = <<>> THEN [ fs |-> f, err |-> "nil" ]
    ELSE LET m == MkdirAll(f, Head(ds))
         IN  IF m.err # "nil" THEN m ELSE create(m.fs, Tail(ds))

NewDirCall(f) == create(f, << "root", "objects", "refs", "tmp" >>)

\* io.Copy(file, rd): Read and Write until the reader is drained
RECURSIVE ioCopy(_, _, _)
ioCopy(f, t, rd) ==
    LET r == ReaderRead(rd, ChunkSize)
    IN  IF r.bytes = <<>> THEN [ fs |-> f, rd |-> r.rd ]
        ELSE ioCopy(tempWrite(f, t, r.bytes), t, r.rd)

\* mutant of PutFrom: the digest is taken before the copy has fed the hash
PutFromHashFirst(f, t, rd) ==
    LET c  == ioCopy(f, t, rd)
        id == ReaderHash(rd)
        r  == osRename(c.fs, t, ObjectFile(id))
    IN  IF r.err # "nil" THEN [ fs |-> r.fs, id |-> <<>>, err |-> r.err ]
        ELSE [ fs |-> r.fs, id |-> id, err |-> "nil" ]

\* Put from the open temp file on: copy through rd, close, rename to the digest
PutFrom(f, t, rd) ==
    LET c  == ioCopy(f, t, rd)
        id == ReaderHash(c.rd)
        r  == osRename(c.fs, t, ObjectFile(id))
    IN  IF r.err # "nil" THEN [ fs |-> r.fs, id |-> <<>>, err |-> r.err ]
        ELSE [ fs |-> r.fs, id |-> id, err |-> "nil" ]

\* mutant of PutCall: the default hash is used whatever SetHash configured
PutCallDefaultHash(f, h, b) ==
    LET t == TempFile(f)
    IN  IF t.err # "nil" THEN [ fs |-> f, id |-> <<>>, err |-> t.err ]
        ELSE PutFrom(t.fs, t.name, NewReader(b, "sha256"))

\* mutant of PutCall: one hash instance serves every Put and is never reset,
\* so it still holds what the previous Put fed it
PutCallSharedHash(f, h, b) ==
    LET t    == TempFile(f)
        used == IF last.op = "Put" THEN HashWrite(h, HashNew(h), last.data)
                ELSE HashNew(h)
    IN  IF t.err # "nil" THEN [ fs |-> f, id |-> <<>>, err |-> t.err ]
        ELSE PutFrom(t.fs, t.name, [ NewReader(b, h) EXCEPT !.acc = used ])

PutCall(f, h, b) ==
    LET t == TempFile(f)
    IN  IF t.err # "nil" THEN [ fs |-> f, id |-> <<>>, err |-> t.err ]
        ELSE PutFrom(t.fs, t.name, NewReader(b, h))

PutFileCall(f, h, path) ==
    IF path \notin DOMAIN ExtFiles THEN [ fs |-> f, id |-> <<>>, err |-> "ENOENT" ]
    ELSE PutCall(f, h, ExtFiles[path])

\* mutant of TestCall: the os.IsNotExist check is missing
TestCallStrict(f, id) ==
    LET o == osOpen(f, ObjectFile(id))
    IN  IF o.err # "nil" THEN [ res |-> FALSE, err |-> o.err ]
        ELSE [ res |-> TRUE, err |-> "nil" ]

TestCall(f, id) ==
    LET o == osOpen(f, ObjectFile(id))
    IN  IF o.err # "nil"
        THEN IF IsNotExist(o.err) THEN [ res |-> FALSE, err |-> "nil" ]
             ELSE [ res |-> FALSE, err |-> o.err ]
        ELSE [ res |-> TRUE, err |-> "nil" ]

\* Get hands back the open file; data is what reading it to the end yields
\* (kind "dir": the handle is a directory and every read of it fails)
GetCall(f, id) ==
    LET p == ObjectFile(id)
        o == osOpen(f, p)
    IN  IF o.err # "nil" THEN [ err |-> o.err, kind |-> "none", data |-> <<>> ]
        ELSE IF o.kind = "dir" THEN [ err |-> "nil", kind |-> "dir", data |-> <<>> ]
        ELSE [ err |-> "nil", kind |-> "file", data |-> f.objects[p.base] ]

RemoveCall(f, id) == osRemove(f, ObjectFile(id))

UnlinkCall(f, name) == osRemove(f, RefFile(name))

LinkCall(f, name, id) ==
    LET t == TestCall(f, id)
    IN  IF t.err # "nil" THEN [ fs |-> f, err |-> t.err ]
        ELSE IF ~t.res THEN [ fs |-> f, err |-> "ErrIDDoesNotExist" ]
        ELSE LET c == osCreate(f, RefFile(name))
             IN  IF c.err # "nil" THEN [ fs |-> f, err |-> c.err ]
                 ELSE [ fs |-> fileWrite(c.fs, RefFile(name), EncodeToString(id)),
                        err |-> "nil" ]

\* io.ReadFull(f, buf) with len(buf) = n on an open alias path
ReadFull(f, p, kind, n) ==
    IF n = 0 THEN [ err |-> "nil", buf |-> <<>> ]
    ELSE IF kind = "dir" THEN [ err |-> "EISDIR", buf |-> <<>> ]
    ELSE LET text == RefText(f, p)
         IN  IF Len(text) = 0 THEN [ err |-> "EOF", buf |-> <<>> ]
             ELSE IF Len(text) < n THEN [ err |-> "ErrUnexpectedEOF", buf |-> <<>> ]
             ELSE [ err |-> "nil", buf |-> SubSeq(text, 1, n) ]

ResolveCall(f, h, name) ==
    LET p == RefFile(name)
        o == osOpen(f, p)
    IN  IF o.err # "nil" THEN [ id |-> <<>>, err |-> o.err ]
        ELSE LET l == DigestSize(h)
                 r == ReadFull(f, p, o.kind, l * 2)
             IN  IF r.err # "nil" THEN [ id |-> <<>>, err |-> r.err ]
                 ELSE LET d == HexDecode(r.buf)
                      IN  IF d.err # "nil" THEN [ id |-> <<>>, err |-> d.err ]
                          ELSE [ id |-> d.bytes, err |-> "nil" ]

----------------------------------------------------------------------------
(* The same methods when one os call of theirs fails with an I/O error *)

\* the error of a failing os call (disk full, permission, device error)
EIO == "EIO"

\* mutant of PutCallFault: a Put that fails removes its temp file
PutCallFaultCleanup(f, h, b, step, k) == [ fs |-> f, id |-> <<>>, err |-> EIO ]

\* Put when step (TempFile, Copy, Close or Rename) fails; a failing copy has
\* moved k bytes to the temp file.  No branch removes the temp file.
PutCallFault(f, h, b, step, k) ==
    LET t == TempFile(f)
        c == ioCopy(t.fs, t.name, NewReader(b, h))
    IN  IF step = "TempFile" THEN [ fs |-> f, id |-> <<>>, err |-> EIO ]
        ELSE IF t.err # "nil" THEN [ fs |-> f, id |-> <<>>, err |-> t.err ]
        ELSE IF step = "Copy"
        THEN [ fs |-> tempWrite(t.fs, t.name, SubSeq(b, 1, k)), id |-> <<>>, err |-> EIO ]
        ELSE [ fs |-> c.fs, id |-> <<>>, err |-> EIO ]

\* Test, Get when os.Open fails with an error other than not-exist
TestCallFault(f, id) == [ res |-> FALSE, err |-> EIO ]

GetCallFault(f, id) == [ err |-> EIO, kind |-> "none", data |-> <<>> ]

\* Remove, Unlink when os.Remove fails
RemoveCallFault(f, id) == [ fs |-> f, err |-> EIO ]

UnlinkCallFault(f, name) == [ fs |-> f, err |-> EIO ]

\* Link when step fails: the Open of Test, the Create, or the Write after k
\* characters.  fault is the step that did fail ("none": Link returned
\* before reaching it).  The result of Write is not looked at.
LinkCallFault(f, name, id, step, k) ==
    LET t == IF step = "Open" THEN TestCallFault(f, id) ELSE TestCall(f, id)
        p == RefFile(name)
        c == IF step = "Create" THEN [ fs |-> f, err |-> EIO ] ELSE osCreate(f, p)
    IN  IF t.err # "nil" THEN [ fs |-> f, err |-> t.err, fault |-> step ]
        ELSE IF ~t.res THEN [ fs |-> f, err |-> "ErrIDDoesNotExist", fault |-> "none" ]
        ELSE IF c.err # "nil"
        THEN [ fs |-> f, err |-> c.err,
               fault |-> IF step = "Create" THEN step ELSE "none" ]
        ELSE IF step = "Write" /\ k < Len(EncodeToString(id))
        THEN [ fs |-> fileWrite(c.fs, p, SubSeq(EncodeToString(id), 1, k)),
               err |-> "nil", fault |-> step ]
        ELSE [ fs |-> fileWrite(c.fs, p, EncodeToString(id)),
               err |-> "nil", fault |-> "none" ]

\* Resolve when step fails: the Open, or the Read of io.ReadFull
ResolveCallFault(f, h, name, step) ==
    LET o == osOpen(f, RefFile(name))
    IN  IF step = "Open" THEN [ id |-> <<>>, err |-> EIO, fault |-> step ]
        ELSE IF o.err # "nil" THEN [ id |-> <<>>, err |-> o.err, fault |-> "none" ]
        ELSE [ id |-> <<>>, err |-> EIO, fault |-> step ]

----------------------------------------------------------------------------
(* The state machine: one caller, every call atomic *)

\* seen: for a Put, whether the ID it returned was already in putLog;
\* fault: the os call of the operation that was made to fail, if any
Ret(op, name, id, data, err, res) ==
    [ op |-> op, name |-> name, id |-> id, data |-> data, err |-> err, res |-> res,
      seen |-> FALSE, fault |-> "none" ]

PutRet(op, name, r, b) ==
    [ Ret(op, name, r.id, b, r.err, r.err = "nil")
        EXCEPT !.seen = (r.err = "nil" /\ r.id \in DOMAIN putLog) ]

Idle == [ pc |-> "idle", tmp |-> 0, rd |-> NewReader(<<>>, "sha256"), data |-> <<>> ]

Init ==
    /\ fs = EmptyTree
    /\ hash = "sha256"
    /\ put = [ t \in Threads |-> Idle ]
    /\ last = Ret("NewDir", <<>>, <<>>, <<>>, "nil", TRUE)
    /\ putLog = EmptyMap
    /\ linkLog = EmptyMap

\* what a Put that returned r (for content b under h) does to the history
Stored(r, h, b) ==
    IF r.err = "nil" THEN Ext(putLog, r.id, [ data |-> b, h |-> h ]) ELSE putLog

NewDir ==
    LET r == NewDirCall(fs)
    IN  /\ fs' = r.fs
        /\ hash' = IF r.err = "nil" THEN "sha256" ELSE hash
        /\ last' = Ret("NewDir", <<>>, <<>>, <<>>, r.err, r.err = "nil")
        /\ UNCHANGED <<put, putLog, linkLog>>

SetHash(h) ==
    /\ hash' = h
    /\ last' = Ret("SetHash", <<>>, <<>>, <<>>, "nil", TRUE)
    /\ UNCHANGED <<fs, put, putLog, linkLog>>

Put(b) ==
    LET r == PutCall(fs, hash, b)
    IN  /\ "objects" \in fs.dirs \/ Cardinality(DOMAIN fs.tmp) < MaxOrphans
        /\ fs' = r.fs
        /\ last' = PutRet("Put", <<>>, r, b)
        /\ putLog' = Stored(r, hash, b)
        /\ UNCHANGED <<hash, put, linkLog>>

PutFile(path) ==
    LET r == PutFileCall(fs, hash, path)
    IN  /\ "objects" \in fs.dirs \/ Cardinality(DOMAIN fs.tmp) < MaxOrphans
        /\ fs' = r.fs
        /\ last' = PutRet("PutFile", path, r,
                          IF path \in DOMAIN ExtFiles THEN ExtFiles[path] ELSE <<>>)
        /\ putLog' = IF path \in DOMAIN ExtFiles
                     THEN Stored(r, hash, ExtFiles[path]) ELSE putLog
        /\ UNCHANGED <<hash, put, linkLog>>

Test(id) ==
    LET r == TestCall(fs, id)
    IN  /\ last' = Ret("Test", <<>>, id, <<>>, r.err, r.res)
        /\ UNCHANGED <<fs, hash, put, putLog, linkLog>>

Get(id) ==
    LET r == GetCall(fs, id)
    IN  /\ last' = Ret("Get", <<>>, id, r.data, r.err, r.kind = "file")
        /\ UNCHANGED <<fs, hash, put, putLog, linkLog>>

Remove(id) ==
    LET r == RemoveCall(fs, id)
    IN  /\ fs' = r.fs
        /\ last' = Ret("Remove", <<>>, id, <<>>, r.err, r.err = "nil")
        /\ putLog' = IF r.err = "nil" /\ id \in DOMAIN putLog THEN Del(putLog, id)
                     ELSE putLog
        /\ UNCHANGED <<hash, put, linkLog>>

Link(name, id) ==
    LET r == LinkCall(fs, name, id)
    IN  /\ fs' = r.fs
        /\ last' = Ret("Link", name, id, <<>>, r.err, r.err = "nil")
        /\ linkLog' = IF r.err = "nil" THEN Ext(linkLog, name, id) ELSE linkLog
        /\ UNCHANGED <<hash, put, putLog>>

Unlink(name) ==
    LET r == UnlinkCall(fs, name)
    IN  /\ fs' = r.fs
        /\ last' = Ret("Unlink", name, <<>>, <<>>, r.err, r.err = "nil")
        /\ linkLog' = IF r.err = "nil" /\ name \in DOMAIN linkLog
                      THEN Del(linkLog, name) ELSE linkLog
        /\ UNCHANGED <<hash, put, putLog>>

Resolve(name) ==
    LET r == ResolveCall(fs, hash, name)
    IN  /\ last' = Ret("Resolve", name, r.id, <<>>, r.err, r.err = "nil")
        /\ UNCHANGED <<fs, hash, put, putLog, linkLog>>

Next ==
    \/ NewDir
    \/ \E h \in Hashes : SetHash(h)
    \/ \E b \in Contents : Put(b)
    \/ \E path \in ExtPaths : PutFile(path)
    \/ \E id \in IDs : Test(id)
    \/ \E id \in IDs : Get(id)
    \/ \E id \in IDs : Remove(id)
    \/ \E name \in Names, id \in IDs : Link(name, id)
    \/ \E name \in Names : Unlink(name)
    \/ \E name \in Names : Resolve(name)

Spec == Init /\ [][Next]_vars

----------------------------------------------------------------------------
(* Put step by step, from several goroutines: TempFile, the Reads and      *)
(* Writes of io.Copy, Close, Rename.  Test, Get and Remove run in between. *)

PutTemp(t, b) ==
    LET r == TempFile(fs)
    IN  /\ put[t].pc = "idle"
        /\ Cardinality(DOMAIN fs.tmp) < NumThreads
        /\ r.err = "nil"
        /\ fs' = r.fs
        /\ put' = [ put EXCEPT ![t] = [ pc |-> "copy", tmp |-> r.name,
                                        rd |-> NewReader(b, hash), data |-> b ] ]
        /\ UNCHANGED <<hash, last, putLog, linkLog>>

PutCopy(t) ==
    LET r == ReaderRead(put[t].rd, ChunkSize)
    IN  /\ put[t].pc = "copy"
        /\ IF r.bytes = <<>>
           THEN /\ put' = [ put EXCEPT ![t].pc = "close", ![t].rd = r.rd ]
                /\ fs' = fs
           ELSE /\ put' = [ put EXCEPT ![t].rd = r.rd ]
                /\ fs' = tempWrite(fs, put[t].tmp, r.bytes)
        /\ UNCHANGED <<hash, last, putLog, linkLog>>

PutClose(t) ==
    /\ put[t].pc = "close"
    /\ put' = [ put EXCEPT ![t].pc = "rename" ]
    /\ UNCHANGED <<fs, hash, last, putLog, linkLog>>

PutRename(t) ==
    LET id == ReaderHash(put[t].rd)
        m  == osRename(fs, put[t].tmp, ObjectFile(id))
        r  == [ fs |-> m.fs, id |-> IF m.err = "nil" THEN id ELSE <<>>, err |-> m.err ]
    IN  /\ put[t].pc = "rename"
        /\ fs' = r.fs
        /\ put' = [ put EXCEPT ![t] = Idle ]
        /\ last' = PutRet("Put", <<>>, r, put[t].data)
        /\ putLog' = Stored(r, put[t].rd.h, put[t].data)
        /\ UNCHANGED <<hash, linkLog>>

InitSteps ==
    /\ fs = EmptyTree
    /\ hash \in Hashes
    /\ put = [ t \in Threads |-> Idle ]
    /\ last = Ret("NewDir", <<>>, <<>>, <<>>, "nil", TRUE)
    /\ putLog = EmptyMap
    /\ linkLog = EmptyMap

\* the IDs the Puts of a run can return: the digests under the hash in use
Digests(h) == { Sum(h, b) : b \in Contents }

NextSteps ==
    \/ \E t \in Threads, b \in Contents : PutTemp(t, b)
    \/ \E t \in Threads : PutCopy(t)
    \/ \E t \in Threads : PutClose(t)
    \/ \E t \in Threads : PutRename(t)
    \/ \E id \in Digests(hash) : Test(id)
    \/ \E id \in Digests(hash) : Get(id)
    \/ \E id \in Digests(hash) : Remove(id)

SpecSteps == InitSteps /\ [][NextSteps]_vars

----------------------------------------------------------------------------
(* The calls of one caller when os calls may fail: each ...Fault action is *)
(* the call with one of its os calls failing.                              *)

PutSteps == { "TempFile", "Copy", "Close", "Rename" }

LinkSteps == { "Open", "Create", "Write" }

ResolveSteps == { "Open", "Read" }

\* the name the calls of SpecFaults use: "x y"
FaultNames == { << "x", " ", "y" >> }

\* the IDs the calls of SpecFaults use
FaultIDs == Digests(hash) \cup { <<>> }

PutFault(b, step, k) ==
    LET r == PutCallFault(fs, hash, b, step, k)
    IN  /\ Cardinality(DOMAIN fs.tmp) < MaxOrphans
        /\ IF step = "Copy" THEN k \in 0..Len(b) ELSE k = 0
        /\ fs' = r.fs
        /\ last' = [ PutRet("Put", <<>>, r, b) EXCEPT !.fault = step ]
        /\ putLog' = Stored(r, hash, b)
        /\ UNCHANGED <<hash, put, linkLog>>

TestFault(id) ==
    LET r == TestCallFault(fs, id)
    IN  /\ last' = [ Ret("Test", <<>>, id, <<>>, r.err, r.res) EXCEPT !.fault = "Open" ]
        /\ UNCHANGED <<fs, hash, put, putLog, linkLog>>

GetFault(id) ==
    LET r == GetCallFault(fs, id)
    IN  /\ last' = [ Ret("Get", <<>>, id, r.data, r.err, r.kind = "file")
                        EXCEPT !.fault = "Open" ]
        /\ UNCHANGED <<fs, hash, put, putLog, linkLog>>

RemoveFault(id) ==
    LET r == RemoveCallFault(fs, id)
    IN  /\ fs' = r.fs
        /\ last' = [ Ret("Remove", <<>>, id, <<>>, r.err, r.err = "nil")
                        EXCEPT !.fault = "Remove" ]
        /\ UNCHANGED <<hash, put, putLog, linkLog>>

LinkFault(name, id, step, k) ==
    LET r == LinkCallFault(fs, name, id, step, k)
    IN  /\ IF step = "Write" THEN k \in 0..(Len(String(id)) - 1) ELSE k = 0
        /\ r.fault = step
        /\ fs' = r.fs
        /\ last' = [ Ret("Link", name, id, <<>>, r.err, r.err = "nil")
                        EXCEPT !.fault = step ]
        /\ linkLog' = IF r.err = "nil" THEN Ext(linkLog, name, id) ELSE linkLog
        /\ UNCHANGED <<hash, put, putLog>>

UnlinkFault(name) ==
    LET r == UnlinkCallFault(fs, name)
    IN  /\ fs' = r.fs
        /\ last' = [ Ret("Unlink", name, <<>>, <<>>, r.err, r.err = "nil")
                        EXCEPT !.fault = "Remove" ]
        /\ UNCHANGED <<hash, put, putLog, linkLog>>

ResolveFault(name, step) ==
    LET r == ResolveCallFault(fs, hash, name, step)
    IN  /\ r.fault = step
        /\ last' = [ Ret("Resolve", name, r.id, <<>>, r.err, r.err = "nil")
                        EXCEPT !.fault = step ]
        /\ UNCHANGED <<fs, hash, put, putLog, linkLog>>

NextFaults ==
    \/ \E b \in Contents : Put(b)
    \/ \E path \in ExtPaths : PutFile(path)
    \/ \E id \in FaultIDs : Remove(id)
    \/ \E name \in FaultNames, id \in FaultIDs : Link(name, id)
    \/ \E name \in FaultNames : Unlink(name)
    \/ \E name \in FaultNames : Resolve(name)
    \/ \E b \in Contents, step \in PutSteps :
            \E k \in 0..Len(b) : PutFault(b, step, k)
    \/ \E id \in FaultIDs : TestFault(id)
    \/ \E id \in FaultIDs : GetFault(id)
    \/ \E id \in FaultIDs : RemoveFault(id)
    \/ \E name \in FaultNames, id \in FaultIDs, step \in LinkSteps :
            \E k \in 0..Len(String(id)) : LinkFault(name, id, step, k)
    \/ \E name \in FaultNames : UnlinkFault(name)
    \/ \E name \in FaultNames, step \in ResolveSteps : ResolveFault(name, step)

SpecFaults == InitSteps /\ [][NextFaults]_vars

----------------------------------------------------------------------------
(* Resolve on a tree found on disk: NewDir opens what is at the path, and  *)
(* the alias file of "x y" holds any short text.                           *)

\* the characters of the records: two hex digits (one upper case) and "z"
RecordChars == { "0", "A", "z" }

\* one character more than the longest hex text of a digest
MaxRecordLen == 2 * DigestSize("sha256") + 1

Records == UNION { [ 1..n -> RecordChars ] : n \in 0..MaxRecordLen }

InitRecords ==
    /\ \E text \in Records :
            fs = [ EmptyTree EXCEPT !.refs = Ext(@, Encode(<< "x", " ", "y" >>), text) ]
    /\ hash \in Hashes
    /\ put = [ t \in Threads |-> Idle ]
    /\ last = Ret("NewDir", <<>>, <<>>, <<>>, "nil", TRUE)
    /\ putLog = EmptyMap
    /\ linkLog = EmptyMap

NextRecords ==
    \/ \E h \in Hashes : SetHash(h)
    \/ \E name \in FaultNames : Resolve(name)

SpecRecords == InitRecords /\ [][NextRecords]_vars

----------------------------------------------------------------------------
(* The calls of one caller under one hash, with the alias names "", "."    *)
(* and "x y"                                                               *)

AliasNames == { <<>>, << "." >>, << "x", " ", "y" >> }

NextNames ==
    \/ \E b \in Contents : Put(b)
    \/ \E path \in ExtPaths : PutFile(path)
    \/ \E id \in FaultIDs : Test(id)
    \/ \E id \in FaultIDs : Get(id)
    \/ \E id \in FaultIDs : Remove(id)
    \/ \E name \in AliasNames, id \in FaultIDs : Link(name, id)
    \/ \E name \in AliasNames : Unlink(name)
    \/ \E name \in AliasNames : Resolve(name)

SpecNames == Init /\ [][NextNames]_vars

----------------------------------------------------------------------------
(* The methods of ID, applied to IDs and strings of any kind *)

\* bytes of the IDs: 0x00, 0x0a, 0xab
IDBytes == { 0, 10, 171 }

\* the longest ID: a digest of the longest hash
MaxIDLen == DigestSize("sha256")

IDValues == UNION { [ 1..n -> IDBytes ] : n \in 0..MaxIDLen }

\* characters of the strings: hex digits of both cases and "g"
StringChars == { "0", "a", "b", "A", "B", "g" }

Strings == UNION { [ 1..n -> StringChars ] : n \in 0..(2 * MaxIDLen) }

\* an ID and a string are given; each method is applied to them once
InitID ==
    /\ \E i \in IDValues, s \in Strings :
            last = Ret("Args", s, i, <<>>, "nil", FALSE)
    /\ fs = EmptyTree
    /\ hash = "sha256"
    /\ put = [ t \in Threads |-> Idle ]
    /\ putLog = EmptyMap
    /\ linkLog = EmptyMap

IDString ==
    /\ last.op = "Args"
    /\ last' = Ret("String", String(last.id), last.id, <<>>, "nil", TRUE)
    /\ UNCHANGED <<fs, hash, put, putLog, linkLog>>

IDEqual(j) ==
    /\ last.op = "Args"
    /\ last' = Ret("Equal", <<>>, last.id, j, "nil", Equal(last.id, j))
    /\ UNCHANGED <<fs, hash, put, putLog, linkLog>>

IDEqualString ==
    LET r == EqualString(last.id, last.name)
    IN  /\ last.op = "Args"
        /\ last' = Ret("EqualString", last.name, last.id, <<>>, r.err, r.res)
        /\ UNCHANGED <<fs, hash, put, putLog, linkLog>>

NextID ==
    \/ IDString
    \/ \E j \in IDValues : IDEqual(j)
    \/ IDEqualString

SpecID == InitID /\ [][NextID]_vars

----------------------------------------------------------------------------
(* Properties *)

IsPut(r) == r.op \in { "Put", "PutFile" }

\* C1 (content addressing): a successful Put(b) returns the digest of b under
\* the configured hash, and as long as no Remove of that ID succeeds, Get of
\* the ID yields exactly b.
ContentAddressing ==
    /\ (IsPut(last) /\ last.err = "nil") =>
            /\ last.id = Sum(hash, last.data)
            /\ last.id \in DOMAIN putLog
    /\ \A i \in DOMAIN putLog :
            GetCall(fs, i) = [ err |-> "nil", kind |-> "file", data |-> putLog[i].data ]
    /\ (last.op = "Get" /\ last.id \in DOMAIN putLog) =>
            last.err = "nil" /\ last.res /\ last.data = putLog[last.id].data

\* a Get has returned the bytes "hi" of an object Put under the non-default hash
ContentAddressingWitness ==
    /\ last.op = "Get"
    /\ last.err = "nil"
    /\ last.data = << 104, 105 >>
    /\ last.id \in DOMAIN putLog
    /\ putLog[last.id].h = "sha1"

\* every file under objects/ is named by the hex digest of its whole content,
\* under the hash in effect when it was Put
ObjectsNamedByDigest ==
    \A fn \in DOMAIN fs.objects :
        \E i \in DOMAIN putLog :
            /\ fn = String(i)
            /\ i = Sum(putLog[i].h, putLog[i].data)
            /\ fs.objects[fn] = putLog[i].data

\* a step leaves the bytes of every object it does not remove as they were
ObjectsImmutable ==
    \A fn \in (DOMAIN fs.objects) \cap (DOMAIN fs'.objects) :
        fs'.objects[fn] = fs.objects[fn]

\* C2 (stored-object invariant): in every reachable state every file under
\* objects/ is named hex(ID) with ID the digest of its full content, and the
\* bytes of a published object never change until it is removed.
StoredObjectInvariant == []ObjectsNamedByDigest /\ [][ObjectsImmutable]_vars

\* objects of both hashes are stored, one was just removed, an alias exists
StoredObjectWitness ==
    /\ Cardinality(DOMAIN fs.objects) >= 2
    /\ last.op = "Remove"
    /\ last.err = "nil"
    /\ DOMAIN fs.refs # {}
    /\ \E fn \in DOMAIN fs.objects : fs.objects[fn] = << 104, 105 >>

\* the ID a Put in progress will return
Pending(t) == Sum(put[t].rd.h, put[t].data)

\* while a Put is under way, its ID is visible to Test or Get only if a
\* completed Put published the identical object; no object is ever partial
NotVisibleBeforeRename ==
    /\ \A t \in Threads :
            (put[t].pc # "idle"
                /\ (TestCall(fs, Pending(t)).res \/ GetCall(fs, Pending(t)).err = "nil"))
            => /\ Pending(t) \in DOMAIN putLog
               /\ GetCall(fs, Pending(t)).data = put[t].data
    /\ ObjectsNamedByDigest
    /\ (last.op = "Get" /\ last.res) => last.id = Sum(hash, last.data)

\* an ID becomes visible by the rename step of a Put of that ID, and only so
VisibleByRenameOnly ==
    \A id \in IDs :
        (~TestCall(fs, id).res /\ TestCall(fs', id).res) =>
            \E t \in Threads :
                /\ put[t].pc = "rename"
                /\ put'[t].pc = "idle"
                /\ ReaderHash(put[t].rd) = id

\* C3 (publication atomicity): with Put as the steps create-temp, copy, close,
\* rename, before the rename a Test or Get of the resulting ID does not see
\* the object being written, no partially written object is ever under
\* objects/, and the object becomes visible only by the rename step.
PublicationAtomic == []NotVisibleBeforeRename /\ [][VisibleByRenameOnly]_vars

\* a Put of "hi" has written its first byte to the temp file, and a Test of
\* the ID it is going to return has just answered false
PublicationWitness ==
    \E t \in Threads :
        /\ put[t].pc = "copy"
        /\ put[t].data = << 104, 105 >>
        /\ fs.tmp[put[t].tmp] = << 104 >>
        /\ last.op = "Test"
        /\ last.id = Pending(t)
        /\ ~last.res

\* a successful Put of a content that an earlier Put under the same hash
\* stored (and no Remove took away) returns the earlier ID, leaves objects/ as
\* it was, and objects/ holds one file with that content for that hash
DedupStep ==
    \A i \in DOMAIN putLog :
        ( /\ IsPut(last')
          /\ last'.err = "nil"
          /\ putLog[i].data = last'.data
          /\ putLog[i].h = hash )
        => /\ last'.id = i
           /\ fs'.objects = fs.objects
           /\ Cardinality({ fn \in DOMAIN fs'.objects :
                                /\ fs'.objects[fn] = last'.data
                                /\ Len(fn) = 2 * DigestSize(hash) }) = 1

\* C4 (deduplication idempotence): two successful Put(b) under the same hash,
\* with other Puts in between, return equal IDs, and the second leaves the set
\* of stored objects as it was, with exactly one file for that ID.
DedupIdempotent == [][DedupStep]_vars

\* a Put has just returned an ID that an earlier Put had returned, with
\* another object stored as well
DedupWitness ==
    /\ last.op = "Put"
    /\ last.err = "nil"
    /\ last.seen
    /\ last.data = << 104, 105 >>
    /\ Cardinality(DOMAIN fs.objects) >= 2

\* C5 (existence symmetry): Test(i) is true with no error right after the
\* successful Put that produced i and at every state until a Remove(i)
\* succeeds, and false with no error right after a successful Remove(i).
ExistenceSymmetry ==
    /\ \A i \in DOMAIN putLog : TestCall(fs, i) = [ res |-> TRUE, err |-> "nil" ]
    /\ (IsPut(last) /\ last.err = "nil") =>
            TestCall(fs, last.id) = [ res |-> TRUE, err |-> "nil" ]
    /\ (last.op = "Remove" /\ last.err = "nil") =>
            TestCall(fs, last.id) = [ res |-> FALSE, err |-> "nil" ]
    /\ (last.op = "Test" /\ last.id \in DOMAIN putLog) => last.res /\ last.err = "nil"
    /\ (last.op = "Test" /\ last.id # <<>> /\ last.id \notin DOMAIN putLog) =>
            ~last.res /\ last.err = "nil"

\* an object was just removed while another stays stored and an alias exists
ExistenceWitness ==
    /\ last.op = "Remove"
    /\ last.err = "nil"
    /\ last.id # <<>>
    /\ DOMAIN putLog # {}
    /\ DOMAIN fs.refs # {}

\* C6 (alias round trip): after a successful Link(n, i), with no Link or
\* Unlink of n since, Resolve(n) returns i and no error, for every n and i.
AliasRoundTrip ==
    (last.op = "Resolve" /\ last.name \in DOMAIN linkLog) =>
        last.err = "nil" /\ last.id = linkLog[last.name]

\* a Link of an ID with no stored object fails with ErrIDDoesNotExist and
\* leaves every alias record as it was
LinkTargetStep ==
    (last'.op = "Link" /\ last'.id \notin DOMAIN putLog) =>
        /\ last'.err = "ErrIDDoesNotExist"
        /\ fs'.refs = fs.refs
        /\ fs'.refsFile = fs.refsFile

\* C7 (Link requires an existing target): for every name n and every ID i with
\* no object stored, Link(n, i) fails with the ID-does-not-exist error and
\* leaves refs/ unchanged.
LinkRequiresTarget == [][LinkTargetStep]_vars

NotFound(n, f, h) == IsNotExist(ResolveCall(f, h, n).err)

\* Unlink of a name that is not bound fails with a not-found error; after a
\* successful Unlink(n), Resolve(n) fails with a not-found error, and goes on
\* doing so until a Link(n, _) succeeds
AbsentStep ==
    /\ (last'.op = "Unlink" /\ last'.name \notin DOMAIN linkLog) =>
            IsNotExist(last'.err)
    /\ (last'.op = "Unlink" /\ last'.err = "nil") => NotFound(last'.name, fs', hash')
    /\ \A n \in Names :
            ( /\ n \notin DOMAIN linkLog
              /\ NotFound(n, fs, hash)
              /\ ~(last'.op = "Link" /\ last'.name = n /\ last'.err = "nil") )
            => NotFound(n, fs', hash')
    /\ (last'.op = "Resolve" /\ last'.name \notin DOMAIN linkLog /\ NotFound(last'.name, fs, hash))
            => IsNotExist(last'.err)

\* C8 (alias state machine, absent state): after a successful Unlink(n),
\* Resolve(n) fails with a not-found error until the next successful
\* Link(n, _), and Unlink(n) of a name that is not bound fails with a
\* not-found error.
AliasAbsent == [][AbsentStep]_vars

\* Remove of a stored object succeeds whatever is bound to it and leaves the
\* alias records alone; Resolve of a name bound to a removed ID returns the ID
RemoveStep ==
    /\ (last'.op = "Remove" /\ last'.id \in DOMAIN putLog) =>
            /\ last'.err = "nil"
            /\ fs'.refs = fs.refs
            /\ fs'.refsFile = fs.refsFile
            /\ ~TestCall(fs', last'.id).res
    /\ ( /\ last'.op = "Resolve"
         /\ last'.name \in DOMAIN linkLog
         /\ linkLog[last'.name] # <<>>
         /\ ~TestCall(fs, linkLog[last'.name]).res )
       => last'.err = "nil" /\ last'.id = linkLog[last'.name]

\* C9 (removal is unconditional and does not touch aliases): Remove(i) of a
\* stored object succeeds even when names are bound to i, leaves every alias
\* record unchanged, and a later Resolve(n) of a name bound to i still returns
\* i without error although Test(i) is now false.
RemoveKeepsAliases == [][RemoveStep]_vars

\* every alias record holds the text of one ID; a successful Link(n, i2) of a
\* stored i2 over an existing binding of n leaves exactly the text of i2, and
\* a Resolve(n) then returns i2
RelinkStep ==
    /\ \A fn \in DOMAIN fs'.refs : \E i \in IDs : fs'.refs[fn] = String(i)
    /\ ( /\ last'.op = "Link"
         /\ last'.err = "nil"
         /\ last'.name \in DOMAIN linkLog
         /\ linkLog[last'.name] \in DOMAIN putLog
         /\ last'.id \in DOMAIN putLog )
       => /\ fs'.refs[Encode(last'.name)] = String(last'.id)
          /\ ResolveCall(fs', hash', last'.name) = [ id |-> last'.id, err |-> "nil" ]

\* C10 (last write wins): each name is bound to at most one ID, and after a
\* successful Link(n, i1) followed by a successful Link(n, i2), both stored,
\* Resolve(n) returns i2 and nothing of i1 remains in the alias record of n.
LastWriteWins == [][RelinkStep]_vars

\* every Put in progress has a temp file of its own, which holds the part of
\* its own input the copy has moved so far and nothing else; and every object
\* a completed Put returned (and no Remove took away) holds that Put's content
OwnTempFile ==
    /\ \A t \in Threads :
            put[t].pc # "idle" =>
                /\ put[t].tmp \in DOMAIN fs.tmp
                /\ fs.tmp[put[t].tmp] \o put[t].rd.src = put[t].data
                /\ \A u \in Threads \ { t } :
                        put[u].pc # "idle" => put[u].tmp # put[t].tmp
    /\ \A i \in DOMAIN putLog :
            /\ String(i) \in DOMAIN fs.objects
            /\ fs.objects[String(i)] = putLog[i].data

\* the rename step of a Put succeeds, returns the digest of that Put's input
\* and leaves under that ID exactly that input
OwnDigest ==
    \A t \in Threads :
        (put[t].pc = "rename" /\ put'[t].pc = "idle") =>
            /\ last'.err = "nil"
            /\ last'.id = Sum(put[t].rd.h, put[t].data)
            /\ last'.data = put[t].data
            /\ fs'.objects[String(last'.id)] = put[t].data

\* C11 (concurrent Puts): in every interleaving of the steps create-temp,
\* copy, close, rename of several Puts, each Put uses a temp file of its own,
\* each returns the digest of its own input, and objects/ holds under every
\* returned ID that Put's content, for distinct and for identical contents.
ConcurrentPuts == []OwnTempFile /\ [][OwnDigest]_vars

\* two Puts of the same content "hi" are both about to rename, each from its
\* own fully written temp file, after a Put of "" completed
ConcurrentPutsWitness ==
    /\ \A t \in Threads : t <= 2 => put[t].pc = "rename" /\ put[t].data = << 104, 105 >>
    /\ put[1].tmp # put[2].tmp
    /\ fs.tmp[put[1].tmp] = << 104, 105 >>
    /\ fs.tmp[put[2].tmp] = << 104, 105 >>
    /\ \E i \in DOMAIN putLog : putLog[i].data = <<>>

\* C12 (errors are propagated): a call in which an os call failed returns an
\* error, and after a Link(n, i) that returned success the alias file of n
\* holds the complete hex text of i.
ErrorsPropagate ==
    /\ last.fault # "none" => last.err # "nil"
    /\ (last.op = "Link" /\ last.err = "nil") =>
            /\ Stat(fs, RefFile(last.name)) = "file"
            /\ RefText(fs, RefFile(last.name)) = String(last.id)

\* a Put whose step failed (or that met a missing directory) returns an error
\* and no ID and leaves the tree as it was but for the temp file; when the
\* rename is what failed, the temp file, fully written, stays in tmp/
FailedPutStep ==
    /\ (last'.op = "Put" /\ last'.fault # "none") => last'.err # "nil"
    /\ (IsPut(last') /\ last'.err # "nil") =>
            /\ last'.id = <<>>
            /\ fs'.objects = fs.objects
            /\ fs'.refs = fs.refs
            /\ fs'.refsFile = fs.refsFile
            /\ fs'.dirs = fs.dirs
    /\ ( /\ last'.op = "Put"
         /\ last'.err # "nil"
         /\ \/ last'.fault = "Rename"
            \/ last'.fault = "none" /\ "objects" \notin fs.dirs )
       => \E t \in DOMAIN fs'.tmp :
            /\ t \notin DOMAIN fs.tmp
            /\ fs'.tmp[t] = last'.data
            /\ Del(fs'.tmp, t) = fs.tmp

\* C13 (failed Put): when the temp-file creation, the copy, the close or the
\* rename of a Put fails, Put returns an error and no ID, objects/ and refs/
\* are as before the call, and after a failed rename the temp file is left
\* in tmp/.
FailedPut == [][FailedPutStep]_vars

\* a Put of "hi" has just failed in its rename, its temp file is left in
\* tmp/, and an object and an alias are stored
FailedPutWitness ==
    /\ last.op = "Put"
    /\ last.fault = "Rename"
    /\ last.err = EIO
    /\ last.data = << 104, 105 >>
    /\ \E t \in DOMAIN fs.tmp : fs.tmp[t] = << 104, 105 >>
    /\ DOMAIN fs.objects # {}
    /\ DOMAIN fs.refs # {}

\* every character of the text is a hex digit
HexText(text) == \A k \in 1..Len(text) : FromHexChar(text[k]) >= 0

\* C14 (truncated or malformed alias records): when the alias file of n holds
\* fewer than 2 x digestSize characters (of the configured hash) or text that
\* is not valid hex, Resolve(n) fails with an error and returns no ID.
RejectsMalformed ==
    ( /\ last.op = "Resolve"
      /\ Stat(fs, RefFile(last.name)) = "file"
      /\ \/ Len(RefText(fs, RefFile(last.name))) < 2 * DigestSize(hash)
         \/ ~HexText(RefText(fs, RefFile(last.name))) )
    => last.err # "nil" /\ last.id = <<>>

\* the directories of the layout
Layout == { "root", "objects", "refs", "tmp" }

\* NewDir on a complete tree succeeds and leaves it as it was, and what Get,
\* Test and Resolve returned for the stored objects and aliases they return
\* through the new handle
NewDirStep ==
    (last'.op = "NewDir" /\ Layout \subseteq fs.dirs) =>
        /\ last'.err = "nil"
        /\ fs' = fs
        /\ \A i \in DOMAIN putLog :
                /\ TestCall(fs', i) = TestCall(fs, i)
                /\ GetCall(fs', i) = GetCall(fs, i)
        /\ \A n \in DOMAIN linkLog :
                ResolveCall(fs, hash, n) = [ id |-> linkLog[n], err |-> "nil" ]
                    => ResolveCall(fs', hash', n) = [ id |-> linkLog[n], err |-> "nil" ]

\* C15 (NewDir is idempotent): NewDir on a path whose tree exists, in any
\* reachable state, succeeds and leaves objects/, refs/ and tmp/ unchanged,
\* and every stored object and alias is still returned by Get, Test and
\* Resolve through the new handle.
NewDirIdempotent == [][NewDirStep]_vars

\* Test, Get and Remove of an ID under which no object is stored: Test
\* answers false with no error, Get and Remove fail with a not-found error,
\* and the tree is as before
AbsentIDStep ==
    (last'.op \in { "Test", "Get", "Remove" } /\ last'.id \notin DOMAIN putLog) =>
        /\ fs' = fs
        /\ last'.op = "Test" => ~last'.res /\ last'.err = "nil"
        /\ last'.op = "Get" => IsNotExist(last'.err)
        /\ last'.op = "Remove" => IsNotExist(last'.err)

\* C16 (absent-ID handling): for every ID of any length, the zero-length ID
\* included, under which no object is stored, Test returns false and no error,
\* Get and Remove fail with a not-found error, and none changes the state.
AbsentID == [][AbsentIDStep]_vars

\* the two IDs have the same length and the same byte at every position
SameBytes(i, j) == Len(i) = Len(j) /\ \A k \in 1..Len(i) : i[k] = j[k]

\* C17 (ID text round trip): i.EqualString(i.String()) is true with no error;
\* i.EqualString(j.String()) is true exactly when i and j are equal byte for
\* byte (IDs of different length are never equal); and EqualString returns
\* an error for every string that is not hex of even length.
IDRoundTrip ==
    /\ last.op = "String" => EqualString(last.id, last.name) = [ res |-> TRUE, err |-> "nil" ]
    /\ last.op = "Equal" => (last.res <=> SameBytes(last.id, last.data))
    /\ last.op = "EqualString" =>
            /\ \A j \in IDValues :
                    last.name = String(j) =>
                        /\ last.err = "nil"
                        /\ last.res <=> SameBytes(last.id, j)
            /\ (Len(last.name) % 2 = 1 \/ ~HexText(last.name)) =>
                    last.err # "nil" /\ ~last.res

\* EqualString has answered true for the ID ab0a and its own text
IDRoundTripWitness ==
    /\ last.op = "EqualString"
    /\ last.err = "nil"
    /\ last.res
    /\ last.id = << 171, 10 >>
    /\ last.name = String(last.id)

\* what a name is bound to: the ID Resolve returns for it, if it returns one
Binding(f, h, m) ==
    LET r == ResolveCall(f, h, m)
    IN  [ bound |-> r.err = "nil", id |-> r.id ]

\* the calls of the object layer leave the alias records alone, the calls of
\* the alias layer leave the objects alone, and a Link or Unlink of one name
\* leaves what every other name is bound to
FrameStep ==
    /\ last'.op \in { "Put", "PutFile", "Get", "Test", "Remove" } =>
            fs'.refs = fs.refs /\ fs'.refsFile = fs.refsFile
    /\ last'.op \in { "Link", "Unlink", "Resolve" } => fs'.objects = fs.objects
    /\ last'.op \in { "Link", "Unlink" } =>
            \A m \in AliasNames \ { last'.name } :
                Binding(fs', hash', m) = Binding(fs, hash, m)

\* C18 (frame independence): Put, PutFile, Get, Test and Remove leave every
\* alias record unchanged; Link, Unlink and Resolve leave the stored objects
\* unchanged; Link(n, _) and Unlink(n) leave the binding of every other name
\* unchanged, distinct names never sharing an alias file.
FrameIndependence == [][FrameStep]_vars

\* C19 (Resolve never returns a wrong ID): in every reachable state, also
\* when SetHash changed the digest size between Put, Link and Resolve,
\* Resolve(n) fails with an error or returns exactly the ID of the most recent
\* successful Link(n, _), never a truncated or otherwise different one.
ResolveExact ==
    (last.op = "Resolve" /\ last.err = "nil") =>
        /\ last.name \in DOMAIN linkLog
        /\ last.id = linkLog[last.name]

\* C20 (layout preservation): root, objects/, refs/ and tmp/ exist in every
\* reachable state, whatever the arguments of Put, Remove, Link, Unlink and
\* Resolve (the empty name, "..", the zero-length ID); no Remove or Unlink
\* deletes a directory of the layout.
LayoutPreserved == Layout \subseteq fs.dirs

=============================================================================
